---- MODULE Spec2Model ----
(***************************************************************************)
(* Model of src/main.py: the Frida-gadget APK patch pipeline.              *)
(*                                                                         *)
(*   __main__ :  check_tools(); unpack_apk(); inject_lief_and_files();     *)
(*               fix_manifest(); repack_sign_align()                       *)
(*                                                                         *)
(* The state is the part of the file system the script reads and writes    *)
(* (UNPACKED_DIR, REPACKED_DIR, the keystore), the environment it probes   *)
(* (PATH, the two input files), the position of the script (pc, the loop   *)
(* variables of inject_lief_and_files) and what it reported (messages,     *)
(* exit status).  An uncaught Python exception ends the process with a     *)
(* traceback and exit status 1.                                            *)
(***************************************************************************)
EXTENDS Integers, Sequences, FiniteSets, TLC

\* ------------------------------------------------------------------ bounds
\* At most MaxFiles files under UNPACKED_DIR/lib in the tree apktool produces.
MaxFiles == 2
\* File sizes of the native modules of the package range over 1..MaxSize.
MaxSize == 2
\* fix_manifest is applied at most MaxRuns times in SpecFix.
MaxRuns == 2

\* --------------------------------------------------------- program constants
INTERNAL_GADGET_NAME == "libfrida-gadget.so"
INTERNAL_CONFIG_NAME == "libfrida-gadget.config.so"

FRIDA_CONFIG ==
  [interaction |-> [type |-> "listen", address |-> "0.0.0.0",
                    port |-> 27042, on_load |-> "resume"]]

\* check_tools: required = [...]
RequiredTools == {"apktool", "zipalign", "apksigner", "keytool"}

\* inject_lief_and_files: for candidate in ["libmain.so", "libnative-lib.so"]
Candidates == <<"libmain.so", "libnative-lib.so">>

\* ------------------------------------------------------------ the file system
\* Architecture directory names under UNPACKED_DIR/lib (opaque ABI names).
Abis == {"arm64-v8a", "armeabi-v7a"}

\* File names that occur in an architecture directory.  ModuleNames are the
\* ones arch_path.glob("*.so") matches; "wrap.sh" is a file it does not match.
ModuleNames == {"libmain.so", "libnative-lib.so", "libfoo.so",
                INTERNAL_GADGET_NAME, INTERNAL_CONFIG_NAME}
Names == ModuleNames \cup {"wrap.sh"}

\* A file: kind "none" (no such file), "elf" (lief.parse yields a binary),
\* "corrupt" (lief.parse yields None), "json" (text written by json.dump),
\* "script" (any other content).  needed is the DT_NEEDED list of an elf.
NoFile == [kind |-> "none", size |-> 0, needed |-> << >>, text |-> << >>]
Elf(s, deps) == [kind |-> "elf", size |-> s, needed |-> deps, text |-> << >>]
Corrupt(s) == [kind |-> "corrupt", size |-> s, needed |-> << >>, text |-> << >>]
Script == [kind |-> "script", size |-> 1, needed |-> << >>, text |-> << >>]

\* GADGET_FILE: the agent binary, an opaque blob that is itself a shared object.
AGENT == Elf(MaxSize, <<"libdl.so">>)

\* The module files a package may hold: modules of every size, and a file
\* with the module extension that lief cannot parse.
Images == {Elf(s, <<"libc.so">>) : s \in 1..MaxSize} \cup {Corrupt(1)}

EmptyDir == [n \in Names |-> NoFile]
Present(d) == {n \in Names : d[n].kind # "none"}

\* An entry of UNPACKED_DIR/lib: absent, a plain file, or a directory.
NoEntry == [kind |-> "none", files |-> EmptyDir]
PlainEntry == [kind |-> "file", files |-> EmptyDir]
DirEntry(d) == [kind |-> "dir", files |-> d]

\* AndroidManifest.xml: whether the root has an <application> child and the
\* value of its android:extractNativeLibs attribute ("absent" when not set).
NoManifest == [present |-> FALSE, app |-> FALSE, extract |-> "absent"]
Manifests ==
  {[present |-> TRUE, app |-> FALSE, extract |-> "absent"]}
    \cup {[present |-> TRUE, app |-> TRUE, extract |-> v] :
            v \in {"absent", "false", "true"}}

NoLib == [a \in Abis |-> NoEntry]
NoTree == [exists |-> FALSE, hasLib |-> FALSE, lib |-> NoLib, manifest |-> NoManifest]
EmptyTree == [exists |-> TRUE, hasLib |-> FALSE, lib |-> NoLib, manifest |-> NoManifest]

\* Directories with at most n files.
Dirs(n) ==
  {d \in [Names -> Images \cup {NoFile, Script}] :
     /\ Cardinality(Present(d)) <= n
     /\ \A f \in Names : (d[f].kind = "script") <=> (f = "wrap.sh" /\ d[f].kind # "none")}

EntryFiles(e) == IF e.kind = "none" THEN 0
                 ELSE IF e.kind = "file" THEN 1
                 ELSE Cardinality(Present(e.files))

Entries == {NoEntry, PlainEntry} \cup {DirEntry(d) : d \in Dirs(MaxFiles)}

\* The contents of a lib directory over the entry names S, n files at most.
RECURSIVE Libs(_, _)
Libs(S, n) ==
  IF S = {} THEN {<< >>}
  ELSE LET a == CHOOSE x \in S : TRUE
       IN UNION {{[x \in {a} |-> e] @@ r :
                    e \in {y \in Entries : EntryFiles(y) = c},
                    r \in Libs(S \ {a}, n - c)} : c \in 0..n}

\* The trees "apktool d" may produce: a manifest, and either no lib directory
\* or one with at most MaxFiles files in all.
Trees ==
  {[exists |-> TRUE, hasLib |-> FALSE, lib |-> NoLib, manifest |-> m] : m \in Manifests}
    \cup {[exists |-> TRUE, hasLib |-> TRUE, lib |-> l, manifest |-> m] :
            l \in Libs(Abis, MaxFiles), m \in Manifests}

\* ------------------------------------------------------------------ variables
VARIABLES
  pc,             \* the statement of __main__ (or of the loop) that runs next
  tools,          \* the executables shutil.which finds on PATH
  apkExists,      \* APK_FILE.exists()
  gadgetExists,   \* GADGET_FILE.exists()
  keystore,       \* KEYSTORE_FILE: "unprobed" until repack_sign_align looks for it,
                  \* then "found" or "generated" (by keytool)
  unpacked,       \* UNPACKED_DIR
  repacked,       \* REPACKED_DIR
  pkg,            \* the tree as apktool produced it (never changed afterwards)
  status,         \* per lib entry: how far the for loop has taken it
  cur,            \* arch_path of the running loop iteration ("-" outside one)
  target,         \* per lib entry: target_lib_path.name ("-" when not chosen)
  called,         \* the functions of the script invoked so far
  errors,         \* the errors reported (messages printed, traceback)
  exitCode,       \* the process's exit status, -1 while it runs
  manifestWrites, \* number of tree.write(manifest_path) calls
  runs            \* number of fix_manifest calls

vars == <<pc, tools, apkExists, gadgetExists, keystore, unpacked, repacked,
          pkg, status, cur, target, called, errors, exitCode, manifestWrites, runs>>

envVars == <<tools, apkExists, gadgetExists>>
loopVars == <<status, cur, target>>

NoRepacked == [exists |-> FALSE, files |-> {}]
Pending == [a \in Abis |-> "pending"]
NoTarget == [a \in Abis |-> "-"]

Init ==
  /\ pc = "check_tools"
  /\ tools \in SUBSET RequiredTools
  /\ apkExists \in BOOLEAN
  /\ gadgetExists \in BOOLEAN
  /\ keystore = "unprobed"
  /\ unpacked \in {NoTree, EmptyTree}
  /\ repacked \in {NoRepacked, [exists |-> TRUE, files |-> {}]}
  /\ pkg = NoTree
  /\ status = Pending
  /\ cur = "-"
  /\ target = NoTarget
  /\ called = {}
  /\ errors = {}
  /\ exitCode = -1
  /\ manifestWrites = 0
  /\ runs = 0

\* exit(1) after a printed message, or an uncaught exception: the process ends.
Abort(err) ==
  /\ pc' = "aborted"
  /\ errors' = errors \cup {err}
  /\ exitCode' = 1

\* ---------------------------------------------------------------- check_tools
MissingPrerequisite ==
  \/ RequiredTools \ tools # {}
  \/ ~apkExists
  \/ ~gadgetExists

\* REPACKED_DIR.mkdir(exist_ok=True, parents=True); UNPACKED_DIR.mkdir(...)
MakeOutputDirs ==
  /\ repacked' = [repacked EXCEPT !.exists = TRUE]
  /\ unpacked' = IF unpacked.exists THEN unpacked ELSE EmptyTree

\* Faulty variant of check_tools: the output directories are made before the
\* prerequisites are looked at.
check_tools_mkdir_first ==
  /\ pc = "check_tools"
  /\ called' = called \cup {"check_tools"}
  /\ MakeOutputDirs
  /\ IF RequiredTools \ tools # {} THEN Abort("tool_missing")
     ELSE IF ~apkExists THEN Abort("apk_missing")
     ELSE IF ~gadgetExists THEN Abort("gadget_missing")
     ELSE /\ pc' = "unpack_apk"
          /\ UNCHANGED <<errors, exitCode>>
  /\ UNCHANGED <<envVars, keystore, pkg, loopVars, manifestWrites, runs>>

\* check_tools as written: the three checks, then the mkdir calls.
check_tools ==
  /\ pc = "check_tools"
  /\ called' = called \cup {"check_tools"}
  /\ IF RequiredTools \ tools # {}
       THEN Abort("tool_missing") /\ UNCHANGED <<unpacked, repacked>>
     ELSE IF ~apkExists
       THEN Abort("apk_missing") /\ UNCHANGED <<unpacked, repacked>>
     ELSE IF ~gadgetExists
       THEN Abort("gadget_missing") /\ UNCHANGED <<unpacked, repacked>>
     ELSE /\ MakeOutputDirs
          /\ pc' = "unpack_apk"
          /\ UNCHANGED <<errors, exitCode>>
  /\ UNCHANGED <<envVars, keystore, pkg, loopVars, manifestWrites, runs>>

\* ----------------------------------------------------------------- unpack_apk
\* shutil.rmtree(UNPACKED_DIR), then "apktool d APK_FILE -o UNPACKED_DIR -f -m":
\* the tool writes some tree t, or exits non-zero (CalledProcessError, uncaught).
unpack_apk ==
  /\ pc = "unpack_apk"
  /\ called' = called \cup {"unpack_apk"}
  /\ \E t \in Trees :
       /\ unpacked' = t
       /\ pkg' = t
  /\ pc' = "inject_lief_and_files"
  /\ UNCHANGED <<envVars, keystore, repacked, loopVars, errors, exitCode,
                 manifestWrites, runs>>

unpack_apk_fails ==
  /\ pc = "unpack_apk"
  /\ called' = called \cup {"unpack_apk"}
  /\ unpacked' = NoTree
  /\ Abort("apktool_d_failed")
  /\ UNCHANGED <<envVars, keystore, repacked, pkg, loopVars, manifestWrites, runs>>

\* ------------------------------------------------------ inject_lief_and_files
\* so_files = list(arch_path.glob("*.so"))
SoFiles(d) == {n \in ModuleNames : d[n].kind # "none"}

Min(S) == CHOOSE x \in S : \A y \in S : x <= y

\* The values target_lib_path may take: the first of Candidates that exists,
\* else a largest file of so_files (max() keeps the first maximum of the
\* listing, whose order glob() does not fix).
\* Faulty variant: the fallback takes a smallest file.
SelectSmallest(d) ==
  LET named == {i \in 1..Len(Candidates) : d[Candidates[i]].kind # "none"}
  IN IF named # {} THEN {Candidates[Min(named)]}
     ELSE {n \in SoFiles(d) : \A m \in SoFiles(d) : d[n].size <= d[m].size}

\* As written.
SelectTarget(d) ==
  LET named == {i \in 1..Len(Candidates) : d[Candidates[i]].kind # "none"}
  IN IF named # {} THEN {Candidates[Min(named)]}
     ELSE {n \in SoFiles(d) : \A m \in SoFiles(d) : d[n].size >= d[m].size}

\* lief.parse(path) returns a binary for an ELF image and None otherwise.
lief_parse(f) == f.kind = "elf"

\* lib.add_library(INTERNAL_GADGET_NAME); lib.write(path): one DT_NEEDED entry
\* appended to the image, which grows.
add_library(f) ==
  [f EXCEPT !.needed = Append(@, INTERNAL_GADGET_NAME), !.size = @ + 1]

\* json.dump(FRIDA_CONFIG, f, indent=2): the text, as its key/value tokens in
\* dict order; a number is written by its decimal digits.
json_dump(cfg) ==
  <<"{", "interaction", "{",
    "type", cfg.interaction.type,
    "address", cfg.interaction.address,
    "port", ToString(cfg.interaction.port),
    "on_load", cfg.interaction.on_load,
    "}", "}">>

\* What a JSON reader makes of such a text: the value after each key.
json_field(text, key) ==
  LET at == {i \in 1..Len(text) - 1 : text[i] = key}
  IN IF at = {} THEN "" ELSE text[Min(at) + 1]

ConfigFile ==
  [kind |-> "json", size |-> Len(json_dump(FRIDA_CONFIG)), needed |-> << >>,
   text |-> json_dump(FRIDA_CONFIG)]

\* shutil.copy(GADGET_FILE, dest_gadget); open(config_path, "w"); json.dump.
\* Faulty variant: a file already at either path is kept.
StageKeepExisting(d) ==
  [d EXCEPT ![INTERNAL_GADGET_NAME] = IF @.kind = "none" THEN AGENT ELSE @,
            ![INTERNAL_CONFIG_NAME] = IF @.kind = "none" THEN ConfigFile ELSE @]

\* As written: both paths are overwritten.
Stage(d) ==
  [d EXCEPT ![INTERNAL_GADGET_NAME] = AGENT,
            ![INTERNAL_CONFIG_NAME] = ConfigFile]

\* The entries lib_dir.iterdir() has still to yield.
Remaining == {a \in Abis : unpacked.lib[a].kind # "none" /\ status[a] = "pending"}

SetDir(a, d) == [unpacked EXCEPT !.lib[a].files = d]

\* lines 92-96: the lib folder check.
\* Faulty variant: the missing lib folder is not treated as an error.
inject_proceeds_without_lib ==
  /\ pc = "inject_lief_and_files"
  /\ called' = called \cup {"inject_lief_and_files"}
  /\ pc' = "loop"
  /\ UNCHANGED <<envVars, keystore, unpacked, repacked, pkg, loopVars,
                 errors, exitCode, manifestWrites, runs>>

\* As written: no lib folder is an error message and exit(1).
inject_lief_and_files ==
  /\ pc = "inject_lief_and_files"
  /\ called' = called \cup {"inject_lief_and_files"}
  /\ IF ~unpacked.hasLib
       THEN Abort("no_lib_folder")
       ELSE pc' = "loop" /\ UNCHANGED <<errors, exitCode>>
  /\ UNCHANGED <<envVars, keystore, unpacked, repacked, pkg, loopVars,
                 manifestWrites, runs>>

\* lines 98-100: an entry that is not a directory.
skip_not_dir ==
  /\ pc = "loop"
  /\ \E a \in Remaining :
       /\ unpacked.lib[a].kind = "file"
       /\ status' = [status EXCEPT ![a] = "notdir"]
  /\ UNCHANGED <<pc, envVars, keystore, unpacked, repacked, pkg, cur, target,
                 called, errors, exitCode, manifestWrites, runs>>

\* lines 105-107: a directory without *.so files.
\* Faulty variant: the gadget and its configuration are staged all the same.
skip_stages_anyway ==
  /\ pc = "loop"
  /\ \E a \in Remaining :
       /\ unpacked.lib[a].kind = "dir"
       /\ SoFiles(unpacked.lib[a].files) = {}
       /\ status' = [status EXCEPT ![a] = "skipped"]
       /\ unpacked' = SetDir(a, Stage(unpacked.lib[a].files))
  /\ UNCHANGED <<pc, envVars, keystore, repacked, pkg, cur, target,
                 called, errors, exitCode, manifestWrites, runs>>

\* As written: continue, before anything is written.
skip_no_modules ==
  /\ pc = "loop"
  /\ \E a \in Remaining :
       /\ unpacked.lib[a].kind = "dir"
       /\ SoFiles(unpacked.lib[a].files) = {}
       /\ status' = [status EXCEPT ![a] = "skipped"]
  /\ UNCHANGED <<pc, envVars, keystore, unpacked, repacked, pkg, cur, target,
                 called, errors, exitCode, manifestWrites, runs>>

\* lines 109-120: the target library of a directory with *.so files.
locate ==
  /\ pc = "loop"
  /\ \E a \in Remaining :
       /\ unpacked.lib[a].kind = "dir"
       /\ SoFiles(unpacked.lib[a].files) # {}
       /\ \E t \in SelectTarget(unpacked.lib[a].files) :
            target' = [target EXCEPT ![a] = t]
       /\ status' = [status EXCEPT ![a] = "located"]
       /\ cur' = a
  /\ pc' = "inject"
  /\ UNCHANGED <<envVars, keystore, unpacked, repacked, pkg,
                 called, errors, exitCode, manifestWrites, runs>>

\* lines 124-126.  On None, lib.add_library raises AttributeError: nothing was
\* written, the traceback is printed and the process exits with status 1.
\* Faulty variant: the failure is reported and the loop goes on.
inject_continues_on_failure ==
  /\ pc = "inject"
  /\ LET d == unpacked.lib[cur].files
         f == d[target[cur]]
     IN IF lief_parse(f)
          THEN /\ unpacked' = SetDir(cur, [d EXCEPT ![target[cur]] = add_library(f)])
               /\ status' = [status EXCEPT ![cur] = "injected"]
               /\ pc' = "stage"
               /\ UNCHANGED <<cur, errors, exitCode>>
          ELSE /\ status' = [status EXCEPT ![cur] = "failed"]
               /\ errors' = errors \cup {"traceback"}
               /\ pc' = "loop"
               /\ cur' = "-"
               /\ UNCHANGED <<unpacked, exitCode>>
  /\ UNCHANGED <<envVars, keystore, repacked, pkg, target, called,
                 manifestWrites, runs>>

\* As written.
inject ==
  /\ pc = "inject"
  /\ LET d == unpacked.lib[cur].files
         f == d[target[cur]]
     IN IF lief_parse(f)
          THEN /\ unpacked' = SetDir(cur, [d EXCEPT ![target[cur]] = add_library(f)])
               /\ status' = [status EXCEPT ![cur] = "injected"]
               /\ pc' = "stage"
               /\ UNCHANGED <<cur, errors, exitCode>>
          ELSE /\ status' = [status EXCEPT ![cur] = "failed"]
               /\ Abort("traceback")
               /\ UNCHANGED <<unpacked, cur>>
  /\ UNCHANGED <<envVars, keystore, repacked, pkg, target, called,
                 manifestWrites, runs>>

\* lines 130-138: the gadget and its configuration, written over whatever
\* the two paths held.
stage ==
  /\ pc = "stage"
  /\ unpacked' = SetDir(cur, Stage(unpacked.lib[cur].files))
  /\ status' = [status EXCEPT ![cur] = "staged"]
  /\ cur' = "-"
  /\ pc' = "loop"
  /\ UNCHANGED <<envVars, keystore, repacked, pkg, target, called,
                 errors, exitCode, manifestWrites, runs>>

\* shutil.copy raises (OSError): nothing is staged, the exception is uncaught.
stage_fails ==
  /\ pc = "stage"
  /\ status' = [status EXCEPT ![cur] = "failed"]
  /\ Abort("traceback")
  /\ UNCHANGED <<envVars, keystore, unpacked, repacked, pkg, cur, target,
                 called, manifestWrites, runs>>

\* The for loop is exhausted: inject_lief_and_files returns to __main__.
loop_end ==
  /\ pc = "loop"
  /\ Remaining = {}
  /\ pc' = "fix_manifest"
  /\ UNCHANGED <<envVars, keystore, unpacked, repacked, pkg, loopVars,
                 called, errors, exitCode, manifestWrites, runs>>

\* ----------------------------------------------------------------- fix_manifest
\* The body of fix_manifest: ET.parse, root.find("application"), the attribute
\* test, application.set and tree.write.  It returns in every case.
\* Faulty variant: the attribute is set and the file written in any case.
FixManifestAlwaysWrites ==
  LET m == unpacked.manifest
  IN /\ called' = called \cup {"fix_manifest"}
     /\ runs' = runs + 1
     /\ IF ~m.app
          THEN /\ errors' = errors \cup {"no_application_tag"}
               /\ UNCHANGED <<unpacked, manifestWrites>>
          ELSE /\ unpacked' = [unpacked EXCEPT !.manifest.extract = "true"]
               /\ manifestWrites' = manifestWrites + 1
               /\ UNCHANGED errors

\* As written: set and write only when the value is not "true" already.
FixManifestBody ==
  LET m == unpacked.manifest
  IN /\ called' = called \cup {"fix_manifest"}
     /\ runs' = runs + 1
     /\ IF ~m.app
          THEN /\ errors' = errors \cup {"no_application_tag"}
               /\ UNCHANGED <<unpacked, manifestWrites>>
          ELSE IF m.extract # "true"
            THEN /\ unpacked' = [unpacked EXCEPT !.manifest.extract = "true"]
                 /\ manifestWrites' = manifestWrites + 1
                 /\ UNCHANGED errors
            ELSE UNCHANGED <<unpacked, manifestWrites, errors>>

\* __main__, line 227: fix_manifest(), then on to repack_sign_align().
fix_manifest ==
  /\ pc = "fix_manifest"
  /\ FixManifestBody
  /\ pc' = "repack_sign_align"
  /\ UNCHANGED <<envVars, keystore, repacked, pkg, loopVars, exitCode>>

\* ------------------------------------------------------------ repack_sign_align
\* apktool b, zipalign, keytool (when there is no keystore), apksigner.
repack_sign_align ==
  /\ pc = "repack_sign_align"
  /\ called' = called \cup {"repack_sign_align"}
  /\ repacked' = [repacked EXCEPT !.files = {"repacked.apk", "repacked-aligned.apk"}]
  /\ \E exists \in BOOLEAN : keystore' = IF exists THEN "found" ELSE "generated"
  /\ pc' = "done"
  /\ exitCode' = 0
  /\ UNCHANGED <<envVars, unpacked, pkg, loopVars, errors, manifestWrites, runs>>

\* "apktool b" exits non-zero: CalledProcessError, uncaught, nothing is built.
repack_fails ==
  /\ pc = "repack_sign_align"
  /\ called' = called \cup {"repack_sign_align"}
  /\ Abort("apktool_b_failed")
  /\ UNCHANGED <<envVars, keystore, unpacked, repacked, pkg, loopVars,
                 manifestWrites, runs>>

\* ------------------------------------------------------------- specifications
Next ==
  \/ check_tools
  \/ unpack_apk
  \/ unpack_apk_fails
  \/ inject_lief_and_files
  \/ skip_not_dir
  \/ skip_no_modules
  \/ locate
  \/ inject
  \/ stage
  \/ stage_fails
  \/ loop_end
  \/ fix_manifest
  \/ repack_sign_align
  \/ repack_fails

Spec == Init /\ [][Next]_vars

\* fix_manifest applied again and again to the manifest of any unpacked tree.
InitFix ==
  /\ pc = "fix_manifest"
  /\ tools = RequiredTools
  /\ apkExists = TRUE
  /\ gadgetExists = TRUE
  /\ keystore = "unprobed"
  /\ unpacked \in Trees
  /\ repacked = [exists |-> TRUE, files |-> {}]
  /\ pkg = unpacked
  /\ status = Pending
  /\ cur = "-"
  /\ target = NoTarget
  /\ called = {}
  /\ errors = {}
  /\ exitCode = -1
  /\ manifestWrites = 0
  /\ runs = 0

fix_manifest_again ==
  /\ pc = "fix_manifest"
  /\ runs < MaxRuns
  /\ FixManifestBody
  /\ UNCHANGED <<pc, envVars, keystore, repacked, pkg, loopVars, exitCode>>

NextFix == fix_manifest_again

SpecFix == InitFix /\ [][NextFix]_vars

\* --------------------------------------------------------------------- claims
Count(seq, x) == Cardinality({i \in 1..Len(seq) : seq[i] = x})

Located(a) == target[a] # "-"
Downstream == {"fix_manifest", "repack_sign_align"}
PrerequisiteErrors == {"tool_missing", "apk_missing", "gadget_missing"}

\* C1: once fix_manifest has reported that the manifest has no application
\* element, repack_sign_align is never invoked in that run.
C1_NoRepackAfterManifestError ==
  "no_application_tag" \in errors => "repack_sign_align" \notin called

\* C2: fix_manifest and repack_sign_align are invoked only after every lib
\* entry has been processed (staged or skipped) without a fatal error; once a
\* locate/inject/stage step has failed, the run is aborted with status 1 and
\* neither of the two is ever invoked.
C2_DownstreamOnlyAfterAllArchs ==
  /\ (called \cap Downstream # {}) =>
       /\ pkg.hasLib
       /\ \A a \in Abis :
            unpacked.lib[a].kind # "none" => status[a] \in {"notdir", "skipped", "staged"}
  /\ (\E a \in Abis : status[a] = "failed") =>
       /\ pc = "aborted"
       /\ exitCode = 1
       /\ called \cap Downstream = {}

C2_Witness ==
  /\ "repack_sign_align" \in called
  /\ \A a \in Abis : status[a] = "staged"

\* C3 as claimed: a tree without a lib directory does not make the run end
\* with a failure status.
C3_NoLibIsNotAnError ==
  (pkg.exists /\ ~pkg.hasLib /\ "inject_lief_and_files" \in called) => exitCode # 1

\* C3 as amended: a tree without a lib directory is a fatal error: it is
\* reported, the run ends with status 1, neither fix_manifest nor
\* repack_sign_align is invoked and the tree is left as unpacked.
C3_NoLibAborts ==
  (pkg.exists /\ ~pkg.hasLib /\ "inject_lief_and_files" \in called) =>
    /\ pc = "aborted"
    /\ exitCode = 1
    /\ "no_lib_folder" \in errors
    /\ called \cap Downstream = {}
    /\ unpacked = pkg

C3_Witness ==
  /\ pkg.exists
  /\ ~pkg.hasLib
  /\ "inject_lief_and_files" \in called
  /\ pc = "aborted"

\* C4: when the run ends without a fatal error, in every directory that had a
\* module file the selected module lists the gadget exactly once more than it
\* did in the package.
C4_DependencyAddedOnce ==
  pc = "done" =>
    \A a \in Abis :
      Located(a) =>
        Count(unpacked.lib[a].files[target[a]].needed, INTERNAL_GADGET_NAME)
          = Count(pkg.lib[a].files[target[a]].needed, INTERNAL_GADGET_NAME) + 1

\* C5: when directory A has been processed and directory B's module then fails
\* to parse, A holds its patched module, the gadget and the configuration, B
\* is as it was unpacked, and the run has reported the failure and ended with
\* status 1.
C5_FailureLeavesOthersAsProcessed ==
  \A a, b \in Abis :
    ( /\ status[a] = "staged"
      /\ status[b] = "failed"
      /\ ~lief_parse(pkg.lib[b].files[target[b]]) ) =>
        /\ unpacked.lib[a].files[target[a]] = add_library(pkg.lib[a].files[target[a]])
        /\ unpacked.lib[a].files[INTERNAL_GADGET_NAME] = AGENT
        /\ unpacked.lib[a].files[INTERNAL_CONFIG_NAME] = ConfigFile
        /\ unpacked.lib[b] = pkg.lib[b]
        /\ pc = "aborted"
        /\ exitCode = 1
        /\ "traceback" \in errors
        /\ called \cap Downstream = {}

\* C6: a directory without module files is never written to, and the step
\* that meets it neither reports an error nor ends the run: the loop goes on.
NoModules(a) == pkg.lib[a].kind = "dir" /\ SoFiles(pkg.lib[a].files) = {}

C6_NoModulesNoWrites ==
  /\ [](\A a \in Abis :
          NoModules(a) => /\ unpacked.lib[a] = pkg.lib[a]
                          /\ status[a] \in {"pending", "skipped"}
                          /\ target[a] = "-")
  /\ [][\A a \in Abis :
          (NoModules(a) /\ status'[a] # status[a]) =>
             /\ pc' = "loop"
             /\ errors' = errors
             /\ exitCode' = exitCode]_vars

C6_Witness ==
  \E a \in Abis :
    /\ NoModules(a)
    /\ Present(pkg.lib[a].files) # {}
    /\ status[a] = "skipped"
    /\ pc = "done"

\* C7: after fix_manifest, a manifest with an application element has
\* extractNativeLibs "true"; a further run changes nothing and writes nothing;
\* the file is written exactly when the attribute was changed.
C7_ExtractNativeLibsIdempotent ==
  /\ []((runs >= 1 /\ unpacked.manifest.app) => unpacked.manifest.extract = "true")
  /\ [][(runs >= 1 /\ unpacked.manifest.app) =>
          (unpacked' = unpacked /\ manifestWrites' = manifestWrites)]_vars
  /\ [][(manifestWrites' # manifestWrites) <=>
          (unpacked'.manifest # unpacked.manifest)]_vars

C7_Witness ==
  /\ runs = 2
  /\ pkg.manifest.app
  /\ pkg.manifest.extract = "false"
  /\ unpacked.manifest.extract = "true"
  /\ manifestWrites = 1

\* C8: in every directory where staging has run, the gadget file is the agent
\* binary byte for byte and the configuration file reads back as the fixed
\* values, whatever the two paths held before.
C8_StagedFiles ==
  \A a \in Abis :
    status[a] = "staged" =>
      LET d == unpacked.lib[a].files
          c == d[INTERNAL_CONFIG_NAME]
      IN /\ d[INTERNAL_GADGET_NAME] = AGENT
         /\ c.kind = "json"
         /\ json_field(c.text, "type") = "listen"
         /\ json_field(c.text, "address") = "0.0.0.0"
         /\ json_field(c.text, "port") = "27042"
         /\ json_field(c.text, "on_load") = "resume"

C8_Witness ==
  \E a \in Abis :
    /\ status[a] = "staged"
    /\ pkg.lib[a].files[INTERNAL_GADGET_NAME].kind # "none"
    /\ pkg.lib[a].files[INTERNAL_CONFIG_NAME].kind # "none"
    /\ target[a] = INTERNAL_CONFIG_NAME

\* C9: with a required tool, the package or the agent binary missing, the run
\* ends in check_tools with the error reported and status 1, and no step of it
\* creates, deletes or changes any file or directory.
C9_MissingPrerequisiteNoMutation ==
  /\ []((MissingPrerequisite /\ pc # "check_tools") =>
          /\ pc = "aborted"
          /\ exitCode = 1
          /\ errors \cap PrerequisiteErrors # {}
          /\ called = {"check_tools"})
  /\ [][MissingPrerequisite =>
          (unpacked' = unpacked /\ repacked' = repacked /\ keystore' = keystore)]_vars

C9_Witness ==
  /\ MissingPrerequisite
  /\ pc = "aborted"
  /\ ~unpacked.exists
  /\ ~repacked.exists

\* C10: the selected module is a module file of the directory: libmain.so if
\* there is one, else libnative-lib.so if there is one, else a module file no
\* smaller than any other module file of the directory.
C10_SelectionPolicy ==
  \A a \in Abis :
    Located(a) =>
      LET d == pkg.lib[a].files
          t == target[a]
      IN /\ t \in SoFiles(d)
         /\ IF d["libmain.so"].kind # "none" THEN t = "libmain.so"
            ELSE IF d["libnative-lib.so"].kind # "none" THEN t = "libnative-lib.so"
            ELSE \A m \in SoFiles(d) : d[t].size >= d[m].size

C10_Witness ==
  \E a \in Abis :
    /\ Located(a)
    /\ SoFiles(pkg.lib[a].files) = {"libfoo.so", INTERNAL_GADGET_NAME}
    /\ pkg.lib[a].files["libfoo.so"].size > pkg.lib[a].files[INTERNAL_GADGET_NAME].size
    /\ target[a] = "libfoo.so"

====
